---- MODULE Spec2Model ----
(***************************************************************************)
(* pymage resource cache manager (pymage/resman.py): ResourceManager,      *)
(* Resource and its variants, Submanager.  The manager is a state machine  *)
(* over three dictionaries (resources, cacheGroups, cacheCount) and the    *)
(* cache attribute of every Resource object.  Every public method is one   *)
(* action; an exception raised by a method is recorded in `result`.        *)
(***************************************************************************)
EXTENDS Integers, Sequences, FiniteSets, TLC

\* ---------------------------------------------------------------- bounds
\* cacheResource is not called on a key whose count already is MaxCount.
MaxCount == 2
\* uncacheResource is not called on a key whose count already is -MaxUnder.
MaxUnder == 1
\* Timer: the largest duration and loop count given to a Timer, the largest
\* time given to one update, and the cumulative time up to which a Timer is
\* updated.  Times are whole numbers of ticks.
MaxDuration == 3
MaxLoop == 2
MaxTime == 4
MaxElapsed == 12
\* Game: the largest number of events one iteration of the event loop gets.
MaxEvents == 2

\* ---------------------------------------------------------------- inputs
\* Resource keys and cache-group keys handed to the manager.
Keys == {"a", "b"}
GroupKeys == {"G1"}
\* The Resource objects that exist, and the class of each.
Objs == {"img1", "img2", "snd1", "snd2", "mus1"}
Images == {"img1", "img2"}
Sounds == {"snd1", "snd2"}
Musics == {"mus1"}
\* The (key, resource) pairs handed to addResource.
Registrations ==
    {<<"a", "img1">>, <<"a", "img2">>, <<"b", "snd1">>, <<"b", "mus1">>}
\* The (group key, member list) pairs handed to addCacheGroup.
GroupDefs == {<<"G1", {"a", "b"}>>, <<"G1", {"b"}>>}
\* The same for the overlapping-groups scenario: three cacheable resources
\* and the groups G1 = {a, b}, G2 = {b, c}.
KeysG == {"a", "b", "c"}
GroupKeysG == {"G1", "G2"}
RegistrationsG == {<<"a", "img1">>, <<"b", "snd1">>, <<"c", "snd2">>}
GroupDefsG == {<<"G1", {"a", "b"}>>, <<"G2", {"b", "c"}>>}
\* Resource.cache is None when there is no cache.
None == "None"
\* What load() of an object can produce: a value, or an exception.
LoadError == "LoadError"
LoadValues(o) ==
    IF o = "img1" THEN {"v1", "v2"} ELSE IF o = "mus1" THEN {None} ELSE {"v1"}
LoadOutcomes(o) == LoadValues(o) \cup {LoadError}
AllOutcomes == UNION {LoadOutcomes(o) : o \in Objs}
\* The same for the branches/resman variant, where one name is both a
\* resource key and a cache-group key.
BranchKeys == {"a", "b", "G1"}
BranchRegistrations ==
    {<<"a", "img1">>, <<"b", "snd1">>, <<"b", "mus1">>, <<"G1", "snd2">>}
\* Playlist names, and the song lists handed to addPlaylist and
\* startPlaylist; "c" is a song no resource is registered under.
PlaylistKeys == {"P1"}
Playlists == {<<>>, <<"a">>, <<"a", "b">>, <<"b", "c", "a">>}
\* list(key) of a playlist name: its characters.
Chars(key) == IF key = "P1" THEN <<"P", "1">> ELSE <<>>
\* The arguments of startPlaylist: a name, a tuple of songs, a list of songs.
PlaylistArgs ==
    [kind : {"name"}, v : PlaylistKeys]
        \cup [kind : {"tuple", "list"}, v : Playlists]
\* resourceType of the Submanager subclasses.
SubTypes == {"ImageResource", "SoundResource"}

VARIABLES
    resources,      \* ResourceManager.resources: key -> Resource object
    cacheGroups,    \* ResourceManager.cacheGroups: group key -> frozenset
    cacheCount,     \* ResourceManager.cacheCount: key -> int
    cache,          \* Resource.cache of every Resource object
    result,         \* the exception the last call raised, or "ok"
    dc,             \* history: the run of direct cache/uncache calls on a key
    gs,             \* history: progress of the overlapping-groups scenario
    strict,         \* history: only well-formed caching calls so far
    timer,          \* a Timer object: its duration, loop and value
    th,             \* history of that Timer since its construction
    game,           \* a Game object: its state and nextState
    it,             \* position in Game.iterate, and history of the state
    music,          \* a MusicManager object: its attributes
    mh,             \* history: the last MusicManager call and the state before
    up              \* position in Timer.update run pass by pass, its
                    \* fireCount, and the parity of the passes made

mgr == <<resources, cacheGroups, cacheCount, cache>>
vars == <<resources, cacheGroups, cacheCount, cache, result, dc, gs, strict,
          timer, th, game, it, music, mh, up>>

\* The manager state as one value.
State == [resources |-> resources, cacheGroups |-> cacheGroups,
          cacheCount |-> cacheCount, cache |-> cache]

Ok(s) == [s |-> s, err |-> "ok"]
Raise(s, e) == [s |-> s, err |-> e]

\* The empty dictionary.
EmptyDict == [x \in {} |-> None]

\* A dictionary with one item set, and with one item deleted.
SetItem(d, k, v) == [x \in DOMAIN d \cup {k} |-> IF x = k THEN v ELSE d[x]]
DelItem(d, k) == [x \in DOMAIN d \ {k} |-> d[x]]

\* isinstance(resource, resourceType)
isinstance(o, t) ==
    \/ t = "Resource"
    \/ t = "ImageResource" /\ o \in Images
    \/ t = "SoundResource" /\ o \in Sounds
    \/ t = "MusicResource" /\ o \in Musics

\* ------------------------------------------------------------- Resource
hasCache(c, o) == c[o] # None

\* Faulty variant: a failing load() leaves the resource without a cache.
createCache_clearOnFail(c, o, force, out) ==
    IF o \in Musics THEN [cache |-> c, err |-> "TypeError"]
    ELSE IF force \/ c[o] = None
         THEN IF out = LoadError
              THEN [cache |-> [c EXCEPT ![o] = None], err |-> LoadError]
              ELSE [cache |-> [c EXCEPT ![o] = out], err |-> "ok"]
         ELSE [cache |-> c, err |-> "ok"]

\* Faulty variant: the force flag is ignored and load() is always called.
createCache_alwaysLoad(c, o, force, out) ==
    IF o \in Musics THEN [cache |-> c, err |-> "TypeError"]
    ELSE IF out = LoadError
         THEN [cache |-> c, err |-> LoadError]
         ELSE [cache |-> [c EXCEPT ![o] = out], err |-> "ok"]

\* Faulty variant: MusicResource does not override createCache.
createCache_noOverride(c, o, force, out) ==
    IF force \/ c[o] = None
    THEN IF out = LoadError
         THEN [cache |-> c, err |-> LoadError]
         ELSE [cache |-> [c EXCEPT ![o] = out], err |-> "ok"]
    ELSE [cache |-> c, err |-> "ok"]

\* Resource.createCache / MusicResource.createCache on object o; `out` is
\* what load() produces if it is called.
createCache(c, o, force, out) ==
    IF o \in Musics THEN [cache |-> c, err |-> "TypeError"]
    ELSE IF force \/ c[o] = None
         THEN IF out = LoadError
              THEN [cache |-> c, err |-> LoadError]
              ELSE [cache |-> [c EXCEPT ![o] = out], err |-> "ok"]
         ELSE [cache |-> c, err |-> "ok"]

\* Resource.get: the cache if there is one, else a fresh load().
get(c, o, out) ==
    IF hasCache(c, o) THEN [ret |-> c[o], err |-> "ok"]
    ELSE IF out = LoadError THEN [ret |-> None, err |-> LoadError]
    ELSE [ret |-> out, err |-> "ok"]

\* Faulty variant: destroyCache refuses a resource that has no cache.
destroyCache_strict(c, o) ==
    IF o \in Musics \/ c[o] = None THEN [cache |-> c, err |-> "TypeError"]
    ELSE [cache |-> [c EXCEPT ![o] = None], err |-> "ok"]

\* Faulty variant: destroyCache leaves the cache in place.
destroyCache_keep(c, o) ==
    IF o \in Musics THEN [cache |-> c, err |-> "TypeError"]
    ELSE [cache |-> c, err |-> "ok"]

\* Resource.destroyCache / MusicResource.destroyCache
destroyCache(c, o) ==
    IF o \in Musics THEN [cache |-> c, err |-> "TypeError"]
    ELSE [cache |-> [c EXCEPT ![o] = None], err |-> "ok"]

\* ------------------------------------------------------ ResourceManager
hasResource(s, key) == key \in DOMAIN s.resources

\* Faulty variant: a duplicate key silently replaces the registered resource.
addResource_overwrite(s, key, o) ==
    Ok([s EXCEPT !.resources = SetItem(@, key, o)])

addResource(s, key, o) ==
    IF key \notin DOMAIN s.resources
    THEN Ok([s EXCEPT !.resources = SetItem(@, key, o)])
    ELSE Raise(s, "KeyError")

getResource(s, key) ==
    IF hasResource(s, key) THEN Ok(s) ELSE Raise(s, "KeyError")

\* Faulty variant: the removed resource's cache and count go with it.
removeResource_uncache(s, key) ==
    IF key \in DOMAIN s.resources
    THEN Ok([s EXCEPT !.resources = DelItem(@, key),
                      !.cacheCount = DelItem(@, key),
                      !.cache = destroyCache(@, s.resources[key]).cache])
    ELSE Raise(s, "KeyError")

\* Faulty variant: every registered resource is dropped.
removeResource_all(s, key) ==
    IF key \in DOMAIN s.resources
    THEN Ok([s EXCEPT !.resources = EmptyDict])
    ELSE Raise(s, "KeyError")

\* Faulty variant: the removed key is also taken out of every cache group.
removeResource_prune(s, key) ==
    IF key \in DOMAIN s.resources
    THEN Ok([s EXCEPT !.resources = DelItem(@, key),
                      !.cacheGroups = [g \in DOMAIN @ |-> @[g] \ {key}]])
    ELSE Raise(s, "KeyError")

removeResource(s, key) ==
    IF key \in DOMAIN s.resources
    THEN Ok([s EXCEPT !.resources = DelItem(@, key)])
    ELSE Raise(s, "KeyError")

\* Faulty variant: the count is set to 1 instead of being incremented.
cacheResource_setOne(s, key, force, out) ==
    IF ~hasResource(s, key) THEN Raise(s, "KeyError")
    ELSE LET r == createCache(s.cache, s.resources[key], force, out) IN
         IF r.err # "ok"
         THEN Raise([s EXCEPT !.cache = r.cache], r.err)
         ELSE Ok([s EXCEPT !.cache = r.cache,
                           !.cacheCount = SetItem(@, key, 1)])

cacheResource(s, key, force, out) ==
    IF ~hasResource(s, key) THEN Raise(s, "KeyError")
    ELSE LET r == createCache(s.cache, s.resources[key], force, out) IN
         IF r.err # "ok"
         THEN Raise([s EXCEPT !.cache = r.cache], r.err)
         ELSE Ok([s EXCEPT !.cache = r.cache,
                           !.cacheCount =
                               IF key \in DOMAIN @
                               THEN [@ EXCEPT ![key] = @ + 1]
                               ELSE SetItem(@, key, 1)])

\* Faulty variant: a count of 0 is not lowered any further.
uncacheResource_floor(s, key) ==
    LET cnt == IF key \in DOMAIN s.cacheCount
               THEN [s.cacheCount EXCEPT ![key] = IF @ > 0 THEN @ - 1 ELSE 0]
               ELSE SetItem(s.cacheCount, key, 0)
        s1 == [s EXCEPT !.cacheCount = cnt]
    IN  IF cnt[key] <= 0
        THEN IF ~hasResource(s1, key) THEN Raise(s1, "KeyError")
             ELSE LET r == destroyCache(s1.cache, s1.resources[key]) IN
                  IF r.err # "ok"
                  THEN Raise([s1 EXCEPT !.cache = r.cache], r.err)
                  ELSE Ok([s1 EXCEPT !.cache = r.cache])
        ELSE Ok(s1)

\* Faulty variant: the cache is destroyed one reference too early.
uncacheResource_early(s, key) ==
    LET cnt == IF key \in DOMAIN s.cacheCount
               THEN [s.cacheCount EXCEPT ![key] = @ - 1]
               ELSE SetItem(s.cacheCount, key, 0)
        s1 == [s EXCEPT !.cacheCount = cnt]
    IN  IF cnt[key] <= 1
        THEN IF ~hasResource(s1, key) THEN Raise(s1, "KeyError")
             ELSE LET r == destroyCache(s1.cache, s1.resources[key]) IN
                  IF r.err # "ok"
                  THEN Raise([s1 EXCEPT !.cache = r.cache], r.err)
                  ELSE Ok([s1 EXCEPT !.cache = r.cache])
        ELSE Ok(s1)

uncacheResource(s, key) ==
    LET cnt == IF key \in DOMAIN s.cacheCount
               THEN [s.cacheCount EXCEPT ![key] = @ - 1]
               ELSE SetItem(s.cacheCount, key, 0)
        s1 == [s EXCEPT !.cacheCount = cnt]
    IN  IF cnt[key] <= 0
        THEN IF ~hasResource(s1, key) THEN Raise(s1, "KeyError")
             ELSE LET r == destroyCache(s1.cache, s1.resources[key]) IN
                  IF r.err # "ok"
                  THEN Raise([s1 EXCEPT !.cache = r.cache], r.err)
                  ELSE Ok([s1 EXCEPT !.cache = r.cache])
        ELSE Ok(s1)

\* Faulty variant: a fresh load is stored as the resource's cache.
loadResource_store(s, key, out) ==
    IF ~hasResource(s, key) THEN Raise(s, "KeyError")
    ELSE LET g == get(s.cache, s.resources[key], out) IN
         IF g.err # "ok" THEN Raise(s, g.err)
         ELSE Ok([s EXCEPT !.cache[s.resources[key]] = g.ret])

loadResource(s, key, out) ==
    IF ~hasResource(s, key) THEN Raise(s, "KeyError")
    ELSE Raise(s, get(s.cache, s.resources[key], out).err)

hasCacheGroup(s, key) == key \in DOMAIN s.cacheGroups

addCacheGroup(s, key, resource_keys) ==
    IF key \notin DOMAIN s.cacheGroups
    THEN Ok([s EXCEPT !.cacheGroups = SetItem(@, key, resource_keys)])
    ELSE Raise(s, "KeyError")

getCacheGroup(s, key) ==
    IF hasCacheGroup(s, key) THEN Ok(s) ELSE Raise(s, "KeyError")

removeCacheGroup(s, key) ==
    IF key \in DOMAIN s.cacheGroups
    THEN Ok([s EXCEPT !.cacheGroups = DelItem(@, key)])
    ELSE Raise(s, "KeyError")

\* The orders in which a for loop can visit the members of a set.
Orders(S) ==
    {f \in [1..Cardinality(S) -> S] : \A i, j \in DOMAIN f : f[i] = f[j] => i = j}

\* The loop of cacheGroup from position i on: it stops at the first member
\* whose cacheResource raises.
RECURSIVE cacheLoop(_, _, _, _, _)
cacheLoop(s, order, i, force, outs) ==
    IF i > Len(order) THEN Ok(s)
    ELSE LET r == cacheResource(s, order[i], force, outs[order[i]]) IN
         IF r.err # "ok" THEN r
         ELSE cacheLoop(r.s, order, i + 1, force, outs)

\* Faulty variant: the loop ends after the first member.
cacheGroup_firstOnly(s, key, force, order, outs) ==
    IF ~hasCacheGroup(s, key) THEN Raise(s, "KeyError")
    ELSE cacheLoop(s, SubSeq(order, 1, 1), 1, force, outs)

\* Faulty variant: a failing member undoes the members cached before it.
cacheGroup_atomic(s, key, force, order, outs) ==
    IF ~hasCacheGroup(s, key) THEN Raise(s, "KeyError")
    ELSE LET r == cacheLoop(s, order, 1, force, outs) IN
         IF r.err # "ok" THEN Raise(s, r.err) ELSE r

cacheGroup(s, key, force, order, outs) ==
    IF ~hasCacheGroup(s, key) THEN Raise(s, "KeyError")
    ELSE cacheLoop(s, order, 1, force, outs)

RECURSIVE uncacheLoop(_, _, _)
uncacheLoop(s, order, i) ==
    IF i > Len(order) THEN Ok(s)
    ELSE LET r == uncacheResource(s, order[i]) IN
         IF r.err # "ok" THEN r
         ELSE uncacheLoop(r.s, order, i + 1)

\* Faulty variant: a member's exception is swallowed.
uncacheGroup_swallow(s, key, order) ==
    IF ~hasCacheGroup(s, key) THEN Raise(s, "KeyError")
    ELSE Ok(uncacheLoop(s, order, 1).s)

uncacheGroup(s, key, order) ==
    IF ~hasCacheGroup(s, key) THEN Raise(s, "KeyError")
    ELSE uncacheLoop(s, order, 1)

\* The loop of cleanup over the keys of cacheCount from position i on.
RECURSIVE cleanupLoop(_, _, _)
cleanupLoop(s, order, i) ==
    IF i > Len(order) THEN Ok(s)
    ELSE IF ~hasResource(s, order[i]) THEN Raise(s, "KeyError")
    ELSE LET r == destroyCache(s.cache, s.resources[order[i]]) IN
         IF r.err # "ok"
         THEN Raise([s EXCEPT !.cache = r.cache], r.err)
         ELSE cleanupLoop([s EXCEPT !.cache = r.cache], order, i + 1)

cleanup(s, order) ==
    LET r == cleanupLoop(s, order, 1) IN
    IF r.err # "ok" THEN r
    ELSE Ok([r.s EXCEPT !.resources = EmptyDict, !.cacheGroups = EmptyDict,
                        !.cacheCount = EmptyDict])

\* ----------------------------------------------------------- Submanager
\* Submanager.prepare (deprecated) of a submanager whose resourceType is t:
\* o is the object that resourceType(defaultPath) creates.
subPrepare(s, t, tag, o) == addResource(s, tag, o)

\* Submanager.cache of a submanager whose resourceType is t.
subCache(s, t, key, force, out) ==
    IF ~hasResource(s, key) THEN Raise(s, "KeyError")
    ELSE IF isinstance(s.resources[key], t)
         THEN LET r == cacheResource(s, key, force, out) IN
              IF r.err # "ok" THEN r ELSE loadResource(r.s, key, out)
         ELSE Raise(s, "KeyError")

\* Submanager.cache of tags/0.2.0: cacheResource is called without the
\* force flag, so with its default False.
tag_subCache(s, t, key, force, out) ==
    IF ~hasResource(s, key) THEN Raise(s, "KeyError")
    ELSE IF isinstance(s.resources[key], t)
         THEN LET r == cacheResource(s, key, FALSE, out) IN
              IF r.err # "ok" THEN r ELSE loadResource(r.s, key, out)
         ELSE Raise(s, "KeyError")

\* Faulty variant: the resource's type is not checked.
subUncache_unchecked(s, t, key) ==
    IF ~hasResource(s, key) THEN Raise(s, "KeyError")
    ELSE uncacheResource(s, key)

subUncache(s, t, key) ==
    IF ~hasResource(s, key) THEN Raise(s, "KeyError")
    ELSE IF isinstance(s.resources[key], t)
         THEN uncacheResource(s, key)
         ELSE Raise(s, "KeyError")

subLoad(s, t, key, out) ==
    IF ~hasResource(s, key) THEN Raise(s, "KeyError")
    ELSE IF isinstance(s.resources[key], t)
         THEN loadResource(s, key, out)
         ELSE Raise(s, "KeyError")

\* --------------------------------------------------------- SoundManager
\* SoundManager.play(tag, cache=docache) of a manager whose shouldPlay
\* attribute is shouldPlay; resourceType is SoundResource.
soundPlay(s, shouldPlay, tag, docache, out) ==
    IF shouldPlay
    THEN LET r == IF docache THEN subCache(s, "SoundResource", tag, FALSE, out)
                  ELSE Ok(s)
         IN  IF r.err # "ok" THEN r
             ELSE subLoad(r.s, "SoundResource", tag, out)
    ELSE Ok(s)

\* --------------------------------------------------------- MusicManager
\* A MusicManager call returns the manager m and the exception raised; s is
\* the state of the ResourceManager it loads from.  MusicManager sets no
\* resourceType, so Submanager's default, Resource, applies.
MOk(m) == [m |-> m, err |-> "ok"]
MRaise(m, e) == [m |-> m, err |-> e]

\* MusicManager.__init__(should_play, loop)
musicInit(should_play, loop) ==
    [savedPlaylists |-> EmptyDict, playlist |-> <<>>, loop |-> loop,
     shouldPlay |-> should_play, index |-> 0, playing |-> FALSE]

addPlaylist(m, key, songs) ==
    MOk([m EXCEPT !.savedPlaylists = SetItem(@, key, songs)])

getPlaylist(m, key) ==
    IF key \in DOMAIN m.savedPlaylists THEN MOk(m) ELSE MRaise(m, "KeyError")

removePlaylist(m, key) ==
    IF key \in DOMAIN m.savedPlaylists
    THEN MOk([m EXCEPT !.savedPlaylists = DelItem(@, key)])
    ELSE MRaise(m, "KeyError")

musicPlay(m) ==
    IF m.shouldPlay /\ ~m.playing THEN [m EXCEPT !.playing = TRUE] ELSE m

musicPause(m) == [m EXCEPT !.playing = FALSE]

musicStop(m) == [m EXCEPT !.playing = FALSE]

\* Python's songs[i]: a negative i counts from the end, and an i outside
\* the list raises IndexError.
InList(songs, i) == -Len(songs) <= i /\ i < Len(songs)
Item(songs, i) == IF i >= 0 THEN songs[i + 1] ELSE songs[Len(songs) + i + 1]

\* MusicManager.load(key); key is None when the argument is left out.
musicLoad(m, s, key, out) ==
    IF key = None /\ m.playlist = <<>> THEN MRaise(m, "ValueError")
    ELSE IF key = None /\ ~InList(m.playlist, m.index)
    THEN MRaise(m, "IndexError")
    ELSE LET k == IF key = None THEN Item(m.playlist, m.index) ELSE key
         IN  IF m.shouldPlay
             THEN MRaise(m, subLoad(s, "Resource", k, out).err)
             ELSE MOk(m)

loadSong(m, s, out) == musicLoad(m, s, None, out)

\* The playlist startPlaylist(key) selects: the saved one, or list(key).
playlistOf(m, key) ==
    IF key.kind = "name"
    THEN IF key.v \in DOMAIN m.savedPlaylists
         THEN m.savedPlaylists[key.v] ELSE Chars(key.v)
    ELSE key.v

\* A list is unhashable: the lookup in savedPlaylists raises TypeError,
\* which `except KeyError` lets through.
startPlaylist(m, s, key, out) ==
    IF key.kind = "list" THEN MRaise(m, "TypeError")
    ELSE LET songs == playlistOf(m, key)
             m1 == [m EXCEPT !.playlist = songs]
         IN  IF songs # <<>>
             THEN loadSong([m1 EXCEPT !.index = 0], s, out)
             ELSE MOk(m1)

previousSong(m, s, out) ==
    IF m.playlist # <<>>
    THEN LET i == m.index - 1
             m1 == [m EXCEPT !.index =
                        IF i < 0 THEN Len(m.playlist) - 1 ELSE i]
         IN  loadSong(musicStop(m1), s, out)
    ELSE MOk(m)

\* Faulty variant: the index is not wrapped to the first song.
nextSong_noWrap(m, s, out) ==
    IF m.playlist # <<>>
    THEN LET m1 == [m EXCEPT !.index = m.index + 1]
             r == loadSong(musicStop(m1), s, out)
         IN  IF r.err # "ok" THEN r
             ELSE IF m.playing THEN MOk(musicPlay(r.m)) ELSE r
    ELSE MOk(m)

\* Faulty variant: playback resumes whatever the manager was doing before.
nextSong_alwaysPlay(m, s, out) ==
    IF m.playlist # <<>>
    THEN LET i == m.index + 1
             wrap == i >= Len(m.playlist)
             m1 == [m EXCEPT !.index = IF wrap THEN 0 ELSE i]
             r == loadSong(musicStop(m1), s, out)
         IN  IF r.err # "ok" THEN r ELSE MOk(musicPlay(r.m))
    ELSE MOk(m)

nextSong(m, s, out) ==
    IF m.playlist # <<>>
    THEN LET i == m.index + 1
             wrap == i >= Len(m.playlist)
             playNextSong == m.playing /\ ~(wrap /\ ~m.loop)
             m1 == [m EXCEPT !.index = IF wrap THEN 0 ELSE i]
             r == loadSong(musicStop(m1), s, out)
         IN  IF r.err # "ok" THEN r
             ELSE IF playNextSong THEN MOk(musicPlay(r.m)) ELSE r
    ELSE MOk(m)

\* --------------------------------- ResourceManager of branches/resman
\* The variant's addResource, getResource, addCacheGroup, getCacheGroup,
\* createCache and destroyCache read as the ones above.  Its cacheResource
\* and uncacheResource index cacheCount with the name cacheKey, which is not
\* bound in them: evaluating it raises NameError.
branch_cacheResource(s, key, force, out) ==
    IF ~hasResource(s, key) THEN Raise(s, "KeyError")
    ELSE LET r == createCache(s.cache, s.resources[key], force, out) IN
         IF r.err # "ok"
         THEN Raise([s EXCEPT !.cache = r.cache], r.err)
         ELSE Raise([s EXCEPT !.cache = r.cache], "NameError")

branch_uncacheResource(s, key) == Raise(s, "NameError")

\* The loops of the variant's cacheGroup and uncacheGroup: for every member
\* they call cacheResource / uncacheResource with the group's key.
RECURSIVE branch_cacheLoop(_, _, _, _, _, _)
branch_cacheLoop(s, key, order, i, force, out) ==
    IF i > Len(order) THEN Ok(s)
    ELSE LET r == branch_cacheResource(s, key, force, out) IN
         IF r.err # "ok" THEN r
         ELSE branch_cacheLoop(r.s, key, order, i + 1, force, out)

branch_cacheGroup(s, key, force, order, out) ==
    IF ~hasCacheGroup(s, key) THEN Raise(s, "KeyError")
    ELSE branch_cacheLoop(s, key, order, 1, force, out)

RECURSIVE branch_uncacheLoop(_, _, _, _)
branch_uncacheLoop(s, key, order, i) ==
    IF i > Len(order) THEN Ok(s)
    ELSE LET r == branch_uncacheResource(s, key) IN
         IF r.err # "ok" THEN r
         ELSE branch_uncacheLoop(r.s, key, order, i + 1)

branch_uncacheGroup(s, key, order) ==
    IF ~hasCacheGroup(s, key) THEN Raise(s, "KeyError")
    ELSE branch_uncacheLoop(s, key, order, 1)

\* ---------------------------------------------------------------- Timer
\* The durations, loop counts and elapsed times handed to a Timer.
Durations == -1..MaxDuration
Loops == 0..MaxLoop
Times == 0..MaxTime
\* The loop counts including a negative one, which loops indefinitely.
RunLoops == -1..MaxLoop
\* fireCount is recorded up to MaxFire, which no update of a Timer with a
\* positive duration or a loop count in RunLoops exceeds.
MaxFire == MaxTime + MaxLoop + 2

\* Timer.reset(duration): arg is <<>> when no duration is given, <<d>> else.
reset(t, arg) ==
    LET t1 == IF Len(arg) > 0 THEN [t EXCEPT !.duration = arg[1]] ELSE t IN
    IF t1.duration < 0 THEN [t |-> t1, err |-> "ValueError"]
    ELSE [t |-> [t1 EXCEPT !.value = t1.duration], err |-> "ok"]

\* Timer.__init__(duration, loop): the fields are set, then reset() is called.
init(duration, loop) ==
    reset([duration |-> duration, loop |-> loop, value |-> 0], <<>>)

\* The while loop of Timer.update: one firing for every pass.
RECURSIVE fireLoop(_, _)
fireLoop(t, fireCount) ==
    IF t.value <= 0
    THEN LET t1 == [t EXCEPT !.value = @ + t.duration] IN
         IF t1.loop = 0
         THEN [t |-> [t1 EXCEPT !.value = 0], fireCount |-> fireCount + 1]
         ELSE IF t1.loop > 0
              THEN fireLoop([t1 EXCEPT !.loop = @ - 1], fireCount + 1)
              ELSE fireLoop(t1, fireCount + 1)
    ELSE [t |-> t, fireCount |-> fireCount]

\* One pass of the while loop of Timer.update: the test and, when it holds,
\* the body.  done tells whether the loop is left.
whilePass(t, fireCount) ==
    IF t.value <= 0
    THEN LET t1 == [t EXCEPT !.value = @ + t.duration] IN
         IF t1.loop = 0
         THEN [t |-> [t1 EXCEPT !.value = 0], fireCount |-> fireCount + 1,
               done |-> TRUE]
         ELSE IF t1.loop > 0
              THEN [t |-> [t1 EXCEPT !.loop = @ - 1],
                    fireCount |-> fireCount + 1, done |-> FALSE]
              ELSE [t |-> t1, fireCount |-> fireCount + 1, done |-> FALSE]
    ELSE [t |-> t, fireCount |-> fireCount, done |-> TRUE]

\* Faulty variant: a finished timer is updated like a running one.
update_noDoneCheck(t, time) ==
    fireLoop([t EXCEPT !.value = @ - time], 0)

\* Timer.update(time) with a number for time; fireCount is what it returns.
update(t, time) ==
    IF t.loop = 0 /\ t.value = 0 THEN [t |-> t, fireCount |-> 0]
    ELSE fireLoop([t EXCEPT !.value = @ - time], 0)

\* ----------------------------------------------------------------- Game
\* The State objects handed to changeToState.
StateObjs == {"A", "B", "C"}

\* Game.changeToState(state)
changeToState(g, state) == [g EXCEPT !.nextState = state]

\* Faulty variant: firstDisplay is called on every iteration.
iterateSwitch_always(g) ==
    [g |-> [g EXCEPT !.state = g.nextState],
     firstDisplay |-> g.nextState # None,
     err |-> IF g.nextState = None THEN "AttributeError" ELSE "ok"]

\* The head of Game.iterate: the change to nextState.  firstDisplay tells
\* whether the new state's firstDisplay is called; calling it on None
\* raises AttributeError.
iterateSwitch(g) ==
    IF g.state # g.nextState
    THEN [g |-> [g EXCEPT !.state = g.nextState],
          firstDisplay |-> g.nextState # None,
          err |-> IF g.nextState = None THEN "AttributeError" ELSE "ok"]
    ELSE [g |-> g, firstDisplay |-> FALSE, err |-> "ok"]

\* ------------------------------------------------------------ histories
\* dc follows one key from its first cacheResource (made when the key had no
\* recorded count) through a run of c direct cacheResource calls followed by
\* u <= c direct uncacheResource calls; anything else done to the key ends
\* the run.
Idle == [key |-> "-", c |-> 0, u |-> 0]

TrackCache(key, ok) ==
    IF ok /\ key \notin DOMAIN cacheCount THEN [key |-> key, c |-> 1, u |-> 0]
    ELSE IF dc.key # key THEN dc
    ELSE IF ok /\ dc.u = 0 THEN [dc EXCEPT !.c = @ + 1]
    ELSE Idle

TrackUncache(key) ==
    IF dc.key # key THEN dc
    ELSE IF dc.u < dc.c THEN [dc EXCEPT !.u = @ + 1]
    ELSE Idle

Touch(keys) == IF dc.key \in keys THEN Idle ELSE dc

\* gs follows the scenario cacheGroup(G1); cacheGroup(G2); uncacheGroup(G1)
\* started on a manager with G1 = {a, b}, G2 = {b, c}, all three keys
\* registered, no count recorded and no cache held.
Fresh ==
    /\ DOMAIN resources = KeysG
    /\ DOMAIN cacheGroups = GroupKeysG
    /\ cacheGroups["G1"] = {"a", "b"}
    /\ cacheGroups["G2"] = {"b", "c"}
    /\ cacheCount = EmptyDict
    /\ \A o \in Objs : cache[o] = None

TrackCacheGroup(key, ok) ==
    IF ok /\ key = "G1" /\ Fresh THEN 1
    ELSE IF ok /\ key = "G2" /\ gs = 1 THEN 2
    ELSE 0

TrackUncacheGroup(key, ok) ==
    IF ok /\ key = "G1" /\ gs = 2 THEN 3 ELSE 0

\* strict holds as long as the manager has only been populated (addResource,
\* addCacheGroup), read, and asked to cache or uncache registered non-music
\* resources whose load succeeded, directly or through a group.
Cacheable(key) == key \in DOMAIN resources /\ resources[key] \notin Musics

\* th follows one Timer: whether it exists, the loop it was constructed
\* with, the time given to its updates so far, the firings so far, what the
\* last update returned, and whether update is all that was called on it.
NoTimer == [duration |-> 0, loop |-> 0, value |-> 0]
NoHistory == [made |-> FALSE, n0 |-> 0, elapsed |-> 0, fired |-> 0,
              ret |-> 0, plain |-> FALSE]

\* it.pc is where Game.iterate stands and it.pending the events it still
\* has to send; it.shown counts the firstDisplay calls made on the current
\* state since it became current, and it.received tells whether that state
\* has received a handle, update or display call since then.
NoIteration == [pc |-> "idle", pending |-> 0, shown |-> 0, received |-> FALSE]

\* No Timer made for the pass-by-pass run of update.
NoRun == [pc |-> "none", fireCount |-> 0, parity |-> 0]

\* No MusicManager call made yet.
NoCall == [op |-> "-", index |-> 0, playing |-> FALSE]

\* -------------------------------------------------------------- actions
InBounds(s) ==
    \A k \in DOMAIN s.cacheCount :
        s.cacheCount[k] <= MaxCount /\ s.cacheCount[k] >= -MaxUnder

\* The call returns or raises as r says.
Do(r) ==
    /\ InBounds(r.s)
    /\ resources' = r.s.resources
    /\ cacheGroups' = r.s.cacheGroups
    /\ cacheCount' = r.s.cacheCount
    /\ cache' = r.s.cache
    /\ result' = r.err
    /\ UNCHANGED <<timer, th, game, it, music, mh, up>>

Members(key) == IF key \in DOMAIN cacheGroups THEN cacheGroups[key] ELSE {}

\* What load() can produce for the resource registered under key.
Outcomes(key) ==
    IF key \in DOMAIN resources THEN LoadOutcomes(resources[key])
    ELSE {LoadError}

\* What load() produces for each member of a group, should it be called.
GroupOutcomes(key) ==
    {f \in [Members(key) -> AllOutcomes] :
        \A m \in Members(key) : f[m] \in Outcomes(m)}

Init ==
    /\ resources = EmptyDict
    /\ cacheGroups = EmptyDict
    /\ cacheCount = EmptyDict
    /\ cache = [o \in Objs |-> None]
    /\ result = "ok"
    /\ dc = Idle
    /\ gs = 0
    /\ strict = TRUE
    /\ timer = NoTimer
    /\ th = NoHistory
    /\ game = [state |-> None, nextState |-> None]
    /\ it = NoIteration
    /\ music = musicInit(TRUE, TRUE)
    /\ mh = NoCall
    /\ up = NoRun

AddResource(regs) ==
    \E reg \in regs :
        /\ Do(addResource(State, reg[1], reg[2]))
        /\ dc' = Touch({reg[1]})
        /\ gs' = 0
        /\ UNCHANGED strict

GetResource(keys) ==
    \E key \in keys :
        /\ Do(getResource(State, key))
        /\ UNCHANGED <<dc, gs, strict>>

RemoveResource(keys) ==
    \E key \in keys :
        /\ Do(removeResource(State, key))
        /\ dc' = Touch({key})
        /\ gs' = 0
        /\ strict' = FALSE

CacheResource(keys) ==
    \E key \in keys, force \in BOOLEAN :
        \E out \in Outcomes(key) :
            LET r == cacheResource(State, key, force, out) IN
            /\ Do(r)
            /\ dc' = TrackCache(key, r.err = "ok")
            /\ gs' = 0
            /\ strict' = (strict /\ r.err = "ok")

UncacheResource(keys) ==
    \E key \in keys :
        /\ Do(uncacheResource(State, key))
        /\ dc' = TrackUncache(key)
        /\ gs' = 0
        /\ strict' = (strict /\ Cacheable(key))

LoadResource(keys) ==
    \E key \in keys :
        \E out \in Outcomes(key) :
            /\ Do(loadResource(State, key, out))
            /\ UNCHANGED <<dc, gs, strict>>

AddCacheGroup(defs) ==
    \E def \in defs :
        /\ Do(addCacheGroup(State, def[1], def[2]))
        /\ gs' = 0
        /\ UNCHANGED <<dc, strict>>

GetCacheGroup(gkeys) ==
    \E key \in gkeys :
        /\ Do(getCacheGroup(State, key))
        /\ UNCHANGED <<dc, gs, strict>>

RemoveCacheGroup(gkeys) ==
    \E key \in gkeys :
        /\ Do(removeCacheGroup(State, key))
        /\ gs' = 0
        /\ UNCHANGED <<dc, strict>>

CacheGroup(gkeys) ==
    \E key \in gkeys, force \in BOOLEAN :
        \E order \in Orders(Members(key)) :
            \E outs \in GroupOutcomes(key) :
                LET r == cacheGroup(State, key, force, order, outs) IN
                /\ Do(r)
                /\ dc' = Touch(Members(key))
                /\ gs' = TrackCacheGroup(key, r.err = "ok")
                /\ strict' = (strict /\ r.err = "ok")

UncacheGroup(gkeys) ==
    \E key \in gkeys :
        \E order \in Orders(Members(key)) :
            LET r == uncacheGroup(State, key, order) IN
            /\ Do(r)
            /\ dc' = Touch(Members(key))
            /\ gs' = TrackUncacheGroup(key, r.err = "ok")
            /\ strict' = (/\ strict
                           /\ key \in DOMAIN cacheGroups
                           /\ \A m \in Members(key) : Cacheable(m))

Cleanup ==
    \E order \in Orders(DOMAIN cacheCount) :
        /\ Do(cleanup(State, order))
        /\ dc' = Idle
        /\ gs' = 0
        /\ strict' = FALSE

\* o can stand for a newly created object of class t: nothing refers to it
\* and it has no cache.
NewObject(o, t) ==
    /\ isinstance(o, t)
    /\ \A k \in DOMAIN resources : resources[k] # o
    /\ cache[o] = None

SubPrepare(regs) ==
    \E t \in SubTypes, reg \in regs :
        /\ NewObject(reg[2], t)
        /\ Do(subPrepare(State, t, reg[1], reg[2]))
        /\ dc' = Touch({reg[1]})
        /\ gs' = 0
        /\ UNCHANGED strict

SubCache(keys) ==
    \E t \in SubTypes, key \in keys, force \in BOOLEAN :
        \E out \in Outcomes(key) :
            /\ Do(subCache(State, t, key, force, out))
            /\ dc' = Touch({key})
            /\ gs' = 0
            /\ strict' = FALSE

TagSubCache(keys) ==
    \E t \in SubTypes, key \in keys, force \in BOOLEAN :
        \E out \in Outcomes(key) :
            /\ Do(tag_subCache(State, t, key, force, out))
            /\ dc' = Touch({key})
            /\ gs' = 0
            /\ strict' = FALSE

SubUncache(keys) ==
    \E t \in SubTypes, key \in keys :
        /\ Do(subUncache(State, t, key))
        /\ dc' = Touch({key})
        /\ gs' = 0
        /\ strict' = FALSE

SoundPlay(keys) ==
    \E shouldPlay \in BOOLEAN, tag \in keys, docache \in BOOLEAN :
        \E out \in Outcomes(tag) :
            /\ Do(soundPlay(State, shouldPlay, tag, docache, out))
            /\ dc' = Touch({tag})
            /\ gs' = 0
            /\ strict' = FALSE

SubLoad(keys) ==
    \E t \in SubTypes, key \in keys :
        \E out \in Outcomes(key) :
            /\ Do(subLoad(State, t, key, out))
            /\ UNCHANGED <<dc, gs, strict>>

\* A direct call of a Resource's createCache or destroyCache, made on the
\* resources that refuse caching.
ResourceCreateCache(objs) ==
    \E o \in objs, force \in BOOLEAN :
        \E out \in LoadOutcomes(o) :
            LET r == createCache(cache, o, force, out) IN
            /\ Do([s |-> [State EXCEPT !.cache = r.cache], err |-> r.err])
            /\ UNCHANGED <<dc, gs, strict>>

ResourceDestroyCache(objs) ==
    \E o \in objs :
        LET r == destroyCache(cache, o) IN
        /\ Do([s |-> [State EXCEPT !.cache = r.cache], err |-> r.err])
        /\ UNCHANGED <<dc, gs, strict>>

BranchCacheResource(keys) ==
    \E key \in keys, force \in BOOLEAN :
        \E out \in Outcomes(key) :
            /\ Do(branch_cacheResource(State, key, force, out))
            /\ UNCHANGED <<dc, gs, strict>>

BranchUncacheResource(keys) ==
    \E key \in keys :
        /\ Do(branch_uncacheResource(State, key))
        /\ UNCHANGED <<dc, gs, strict>>

BranchCacheGroup(gkeys) ==
    \E key \in gkeys, force \in BOOLEAN :
        \E order \in Orders(Members(key)) :
            \E out \in Outcomes(key) :
                /\ Do(branch_cacheGroup(State, key, force, order, out))
                /\ UNCHANGED <<dc, gs, strict>>

BranchUncacheGroup(gkeys) ==
    \E key \in gkeys :
        \E order \in Orders(Members(key)) :
            /\ Do(branch_uncacheGroup(State, key, order))
            /\ UNCHANGED <<dc, gs, strict>>

\* Timer(duration, loop): a failed construction leaves no new object.
TimerInit ==
    \E duration \in Durations, loop \in Loops :
        LET r == init(duration, loop) IN
        /\ result' = r.err
        /\ IF r.err = "ok"
           THEN /\ timer' = r.t
                /\ th' = [made |-> TRUE, n0 |-> loop, elapsed |-> 0,
                          fired |-> 0, ret |-> 0, plain |-> TRUE]
           ELSE UNCHANGED <<timer, th>>
        /\ UNCHANGED <<up, music, mh, mgr, dc, gs, strict, game, it>>

TimerReset ==
    \E arg \in {<<>>} \cup {<<d>> : d \in Durations} :
        LET r == reset(timer, arg) IN
        /\ th.made
        /\ timer' = r.t
        /\ th' = [th EXCEPT !.plain = FALSE]
        /\ result' = r.err
        /\ UNCHANGED <<up, music, mh, mgr, dc, gs, strict, game, it>>

TimerUpdate ==
    \E time \in Times :
        LET r == update(timer, time) IN
        /\ th.made
        /\ th.elapsed + time <= MaxElapsed
        /\ timer' = r.t
        /\ th' = [th EXCEPT !.elapsed = @ + time, !.fired = @ + r.fireCount,
                            !.ret = r.fireCount]
        /\ result' = "ok"
        /\ UNCHANGED <<up, music, mh, mgr, dc, gs, strict, game, it>>

\* Game.changeToState, called between iterations or by a state's handle,
\* update or display during one.
GameChangeToState ==
    \E state \in StateObjs \cup {None} :
        /\ game' = changeToState(game, state)
        /\ result' = "ok"
        /\ UNCHANGED <<up, music, mh, mgr, dc, gs, strict, timer, th, it>>

\* Game.iterate up to pygame.event.get().
GameIterate ==
    LET r == iterateSwitch(game)
        changed == r.g.state # game.state
        shown == (IF changed THEN 0 ELSE it.shown)
                     + (IF r.firstDisplay THEN 1 ELSE 0)
        received == IF changed THEN FALSE ELSE it.received
    IN  /\ it.pc = "idle"
        /\ game' = r.g
        /\ result' = r.err
        /\ IF r.err # "ok"
           THEN it' = [pc |-> "idle", pending |-> 0, shown |-> shown,
                       received |-> received]
           ELSE \E n \in 0..MaxEvents :
                    it' = [pc |-> "events", pending |-> n, shown |-> shown,
                           received |-> received]
        /\ UNCHANGED <<up, music, mh, mgr, dc, gs, strict, timer, th>>

\* self.state.handle(event) for the next event.
GameHandle ==
    /\ it.pc = "events" /\ it.pending > 0
    /\ IF game.state = None
       THEN /\ result' = "AttributeError"
            /\ it' = [it EXCEPT !.pc = "idle", !.pending = 0]
       ELSE /\ result' = "ok"
            /\ it' = [it EXCEPT !.pending = @ - 1, !.received = TRUE]
    /\ UNCHANGED <<up, music, mh, mgr, dc, gs, strict, timer, th, game>>

\* self.state.update(self)
GameUpdate ==
    /\ it.pc = "events" /\ it.pending = 0
    /\ IF game.state = None
       THEN /\ result' = "AttributeError"
            /\ it' = [it EXCEPT !.pc = "idle"]
       ELSE /\ result' = "ok"
            /\ it' = [it EXCEPT !.pc = "display", !.received = TRUE]
    /\ UNCHANGED <<up, music, mh, mgr, dc, gs, strict, timer, th, game>>

\* self.state.display(self.screen)
GameDisplay ==
    /\ it.pc = "display"
    /\ result' = "ok"
    /\ it' = [it EXCEPT !.pc = "idle", !.received = TRUE]
    /\ UNCHANGED <<up, music, mh, mgr, dc, gs, strict, timer, th, game>>

\* Every public operation of the manager and of its submanagers.
Next ==
    \/ AddResource(Registrations)
    \/ GetResource(Keys)
    \/ RemoveResource(Keys)
    \/ CacheResource(Keys)
    \/ UncacheResource(Keys)
    \/ LoadResource(Keys)
    \/ AddCacheGroup(GroupDefs)
    \/ GetCacheGroup(GroupKeys)
    \/ RemoveCacheGroup(GroupKeys)
    \/ CacheGroup(GroupKeys)
    \/ UncacheGroup(GroupKeys)
    \/ Cleanup
    \/ SubPrepare(Registrations)
    \/ SubCache(Keys)
    \/ SubUncache(Keys)
    \/ SubLoad(Keys)
    \/ SoundPlay(Keys)
    \/ ResourceCreateCache(Musics)
    \/ ResourceDestroyCache(Musics)

Spec == Init /\ [][Next]_vars

\* The caching operations over three resources and two overlapping groups.
NextG ==
    \/ AddResource(RegistrationsG)
    \/ AddCacheGroup(GroupDefsG)
    \/ CacheResource(KeysG)
    \/ UncacheResource(KeysG)
    \/ CacheGroup(GroupKeysG)
    \/ UncacheGroup(GroupKeysG)

SpecG == Init /\ [][NextG]_vars

\* The manager of branches/resman: registration and the caching calls.
NextBranch ==
    \/ AddResource(BranchRegistrations)
    \/ RemoveResource(BranchKeys)
    \/ AddCacheGroup(GroupDefs)
    \/ BranchCacheResource(BranchKeys)
    \/ BranchUncacheResource(BranchKeys)
    \/ BranchCacheGroup(GroupKeys)
    \/ BranchUncacheGroup(GroupKeys)

SpecBranch == Init /\ [][NextBranch]_vars

\* The manager of tags/0.2.0 with its submanagers' cache and uncache.
NextTag ==
    \/ AddResource(Registrations)
    \/ RemoveResource(Keys)
    \/ CacheResource(Keys)
    \/ UncacheResource(Keys)
    \/ TagSubCache(Keys)
    \/ SubUncache(Keys)

SpecTag == Init /\ [][NextTag]_vars

\* A Timer that is constructed, reset and updated.
\* The MusicManager call op returns or raises as r says.
DoMusic(op, r) ==
    /\ music' = r.m
    /\ mh' = [op |-> op, index |-> music.index, playing |-> music.playing]
    /\ result' = r.err
    /\ UNCHANGED <<mgr, dc, gs, strict, timer, th, game, it, up>>

\* What load() can produce for song number i (from 0) of a playlist.
SongOutcomes(songs, i) ==
    IF songs # <<>> /\ InList(songs, i) THEN Outcomes(Item(songs, i))
    ELSE {LoadError}

MusicInit ==
    \E should_play \in BOOLEAN, loop \in BOOLEAN :
        DoMusic("init", MOk(musicInit(should_play, loop)))

MusicAddPlaylist ==
    \E key \in PlaylistKeys, songs \in Playlists :
        DoMusic("addPlaylist", addPlaylist(music, key, songs))

MusicGetPlaylist ==
    \E key \in PlaylistKeys : DoMusic("getPlaylist", getPlaylist(music, key))

MusicRemovePlaylist ==
    \E key \in PlaylistKeys :
        DoMusic("removePlaylist", removePlaylist(music, key))

MusicStartPlaylist ==
    \E key \in PlaylistArgs :
        \E out \in SongOutcomes(playlistOf(music, key), 0) :
            DoMusic("startPlaylist", startPlaylist(music, State, key, out))

MusicPlay == DoMusic("play", MOk(musicPlay(music)))

MusicPause == DoMusic("pause", MOk(musicPause(music)))

MusicStop == DoMusic("stop", MOk(musicStop(music)))

MusicLoad ==
    \E key \in Keys \cup {None} :
        \E out \in IF key = None
                    THEN SongOutcomes(music.playlist, music.index)
                    ELSE Outcomes(key) :
            DoMusic("load", musicLoad(music, State, key, out))

\* The song nextSong and previousSong move to.
NextIndex(m) ==
    IF m.index + 1 >= Len(m.playlist) THEN 0 ELSE m.index + 1
PrevIndex(m) ==
    IF m.index - 1 < 0 THEN Len(m.playlist) - 1 ELSE m.index - 1

MusicPreviousSong ==
    \E out \in SongOutcomes(music.playlist, PrevIndex(music)) :
        DoMusic("previousSong", previousSong(music, State, out))

MusicNextSong ==
    \E out \in SongOutcomes(music.playlist, NextIndex(music)) :
        DoMusic("nextSong", nextSong(music, State, out))

\* Timer(duration, loop), for the run of update pass by pass.
RunInit ==
    \E duration \in Durations, loop \in RunLoops :
        LET r == init(duration, loop) IN
        /\ up.pc # "while"
        /\ result' = r.err
        /\ IF r.err = "ok"
           THEN timer' = r.t /\ up' = [NoRun EXCEPT !.pc = "idle"]
           ELSE UNCHANGED <<timer, up>>
        /\ UNCHANGED <<th, music, mh, mgr, dc, gs, strict, game, it>>

\* update(time) is called: it returns 0 at once for a finished Timer, and
\* else takes the time off the value and enters the while loop.
RunUpdate ==
    \E time \in Times :
        /\ up.pc = "idle"
        /\ IF timer.loop = 0 /\ timer.value = 0
           THEN /\ up' = [NoRun EXCEPT !.pc = "idle"]
                /\ UNCHANGED timer
           ELSE /\ timer' = [timer EXCEPT !.value = @ - time]
                /\ up' = [NoRun EXCEPT !.pc = "while"]
        /\ result' = "ok"
        /\ UNCHANGED <<th, music, mh, mgr, dc, gs, strict, game, it>>

\* One pass of the while loop; update returns when the loop is left.
RunWhile ==
    LET r == whilePass(timer, up.fireCount) IN
    /\ up.pc = "while"
    /\ timer' = r.t
    /\ up' = [pc |-> IF r.done THEN "idle" ELSE "while",
              fireCount |-> IF r.fireCount > MaxFire THEN MaxFire
                            ELSE r.fireCount,
              parity |-> 1 - up.parity]
    /\ UNCHANGED <<result, th, music, mh, mgr, dc, gs, strict, game, it>>

NextTimer ==
    \/ TimerInit
    \/ TimerReset
    \/ TimerUpdate

SpecTimer == Init /\ [][NextTimer]_vars

\* A Game whose event loop iterates while states are changed.
NextGame ==
    \/ GameChangeToState
    \/ GameIterate
    \/ GameHandle
    \/ GameUpdate
    \/ GameDisplay

SpecGame == Init /\ [][NextGame]_vars

\* A Timer whose update runs pass by pass; a call that has entered the
\* while loop goes on executing it.
NextRun ==
    \/ RunInit
    \/ RunUpdate
    \/ RunWhile

SpecRun == Init /\ [][NextRun]_vars /\ WF_vars(RunWhile)

\* A MusicManager over the resources of a manager.
NextMusic ==
    \/ AddResource(Registrations)
    \/ RemoveResource(Keys)
    \/ MusicInit
    \/ MusicAddPlaylist
    \/ MusicGetPlaylist
    \/ MusicRemovePlaylist
    \/ MusicStartPlaylist
    \/ MusicPlay
    \/ MusicPause
    \/ MusicStop
    \/ MusicLoad
    \/ MusicPreviousSong
    \/ MusicNextSong

SpecMusic == Init /\ [][NextMusic]_vars

\* --------------------------------------------------------------- claims
\* Whether the resource registered under key holds a cache.
Cached(key) == key \in DOMAIN resources /\ hasCache(cache, resources[key])

\* C1: after n >= 1 direct cacheResource(r) calls on a registered non-music
\* resource that had no recorded count, followed by fewer than n direct
\* uncacheResource(r) calls, r has a cache; after the n-th uncacheResource(r)
\* call r has no cache.
C1_DirectRefCount ==
    (dc.key # "-" /\ dc.c >= 1) =>
        /\ dc.key \in DOMAIN resources
        /\ dc.u < dc.c => hasCache(cache, resources[dc.key])
        /\ dc.u = dc.c => ~hasCache(cache, resources[dc.key])

\* Two caches and two uncaches of one key have been made.
C1_Witness == dc.c = 2 /\ dc.u = 2 /\ ~Cached(dc.key)

\* C2: with G1 = {a, b} and G2 = {b, c} on a fresh manager, after
\* cacheGroup(G1); cacheGroup(G2); uncacheGroup(G1) a has no cache, b has a
\* cache with one outstanding reference, and c has a cache.
C2_OverlappingGroups ==
    gs = 3 =>
        /\ ~Cached("a")
        /\ Cached("b") /\ cacheCount["b"] = 1
        /\ Cached("c")

C2_Witness == gs = 3 /\ cacheCount["a"] = 0 /\ cacheCount["c"] = 1

\* C3: every recorded cacheCount is >= 0 in every reachable state.
C3_CountNonNegative == \A k \in DOMAIN cacheCount : cacheCount[k] >= 0

\* C4: after any sequence of cacheResource, uncacheResource, cacheGroup and
\* uncacheGroup calls on registered non-music resources whose load succeeds,
\* a resource has a cache if and only if its cacheCount is greater than 0.
C4_CachedIffCounted ==
    strict =>
        \A k \in DOMAIN resources :
            hasCache(cache, resources[k])
                <=> (k \in DOMAIN cacheCount /\ cacheCount[k] > 0)

\* C5: addResource of a registered key raises KeyError and leaves the manager
\* unchanged; addCacheGroup of an existing group key does the same.
C5_KeysUnique ==
    /\ \A k \in DOMAIN resources : \A o \in Objs :
           addResource(State, k, o) = Raise(State, "KeyError")
    /\ \A g \in DOMAIN cacheGroups : \A members \in SUBSET Keys :
           addCacheGroup(State, g, members) = Raise(State, "KeyError")

\* A second resource is offered for a registered key, and a second member
\* list for an existing group, after a call has raised KeyError.
C5_Witness ==
    /\ "a" \in DOMAIN resources /\ resources["a"] = "img1"
    /\ addResource(State, "a", "img2").err = "KeyError"
    /\ "G1" \in DOMAIN cacheGroups /\ cacheGroups["G1"] = {"a", "b"}
    /\ addCacheGroup(State, "G1", {"b"}).err = "KeyError"
    /\ result = "KeyError"

\* C6: after cleanup() is called in any reachable state, getResource raises
\* KeyError for every key registered before the call and no cache group
\* exists.
C6_CleanupClearsRegistry ==
    \A order \in Orders(DOMAIN cacheCount) :
        LET r == cleanup(State, order) IN
        /\ \A k \in DOMAIN resources : getResource(r.s, k).err = "KeyError"
        /\ DOMAIN r.s.cacheGroups = {}

\* C7: cleanup() returns normally in every reachable state.
C7_CleanupTotal ==
    \A order \in Orders(DOMAIN cacheCount) : cleanup(State, order).err = "ok"

\* C8: when cleanup() returns, every resource whose cache was created through
\* the manager has no cache, and the three dictionaries are empty.
C8_CleanupDestroysAll ==
    \A order \in Orders(DOMAIN cacheCount) :
        LET r == cleanup(State, order) IN
        r.err = "ok" =>
            /\ \A o \in Objs : ~hasCache(r.s.cache, o)
            /\ r.s.resources = EmptyDict
            /\ r.s.cacheGroups = EmptyDict
            /\ r.s.cacheCount = EmptyDict

\* C9: createCache and destroyCache of a MusicResource raise TypeError on
\* every call, whatever the force flag; cacheResource of a music key raises
\* TypeError and leaves the cache and cacheCount unchanged; a music resource
\* never has a cache.
C9_MusicNeverCached ==
    /\ \A o \in Musics : \A force \in BOOLEAN : \A out \in LoadOutcomes(o) :
           createCache(cache, o, force, out) = [cache |-> cache, err |-> "TypeError"]
    /\ \A o \in Musics :
           destroyCache(cache, o) = [cache |-> cache, err |-> "TypeError"]
    /\ \A k \in DOMAIN resources : resources[k] \in Musics =>
           \A force \in BOOLEAN : \A out \in Outcomes(k) :
               cacheResource(State, k, force, out) = Raise(State, "TypeError")
    /\ \A o \in Musics : ~hasCache(cache, o)

\* A call on the registered music resource has raised TypeError.
C9_Witness ==
    /\ "b" \in DOMAIN resources /\ resources["b"] = "mus1"
    /\ result = "TypeError"
    /\ "b" \in DOMAIN cacheCount

\* C10: load, cache and uncache of an ImageResource submanager on a key
\* registered to a SoundResource raise KeyError and leave the manager
\* unchanged, exactly as they do on an unregistered key.
C10_SubmanagerFilters ==
    \A k \in Keys :
        (k \notin DOMAIN resources \/ resources[k] \in Sounds) =>
            /\ \A force \in BOOLEAN : \A out \in Outcomes(k) :
                   subCache(State, "ImageResource", k, force, out)
                       = Raise(State, "KeyError")
            /\ subUncache(State, "ImageResource", k) = Raise(State, "KeyError")
            /\ \A out \in Outcomes(k) :
                   subLoad(State, "ImageResource", k, out)
                       = Raise(State, "KeyError")

\* An image and a cached sound are registered and a call has raised KeyError.
C10_Witness ==
    /\ "a" \in DOMAIN resources /\ resources["a"] \in Images
    /\ "b" \in DOMAIN resources /\ resources["b"] = "snd1"
    /\ hasCache(cache, "snd1") /\ "b" \in DOMAIN cacheCount
    /\ subUncache(State, "ImageResource", "b").err = "KeyError"
    /\ result = "KeyError"

\* The recorded count of key, 0 when none is recorded.
Count(s, key) == IF key \in DOMAIN s.cacheCount THEN s.cacheCount[key] ELSE 0

\* The manager after cacheResource has been called on the first n members
\* of order, one call after the other.
RECURSIVE CachedPrefix(_, _, _, _, _)
CachedPrefix(s, order, n, force, outs) ==
    IF n = 0 THEN s
    ELSE cacheResource(CachedPrefix(s, order, n - 1, force, outs),
                       order[n], force, outs[order[n]]).s

\* The position of the first member of order whose cacheResource raises,
\* 0 when none does.
FirstCacheFailure(s, order, force, outs) ==
    LET bad == {i \in 1..Len(order) :
                   cacheResource(CachedPrefix(s, order, i - 1, force, outs),
                                 order[i], force, outs[order[i]]).err # "ok"}
    IN  IF bad = {} THEN 0 ELSE CHOOSE i \in bad : \A j \in bad : i <= j

\* C11: cacheGroup is not transactional: when cacheGroup(g) raises at some
\* member (an unregistered key, a music resource or a failing load), every
\* member visited before it still has its cache and its cacheCount is one
\* more than before the call; nothing is rolled back.
C11_CacheGroupNoRollback ==
    \A g \in DOMAIN cacheGroups : \A force \in BOOLEAN :
        \A order \in Orders(Members(g)) : \A outs \in GroupOutcomes(g) :
            LET r == cacheGroup(State, g, force, order, outs)
                f == FirstCacheFailure(State, order, force, outs)
            IN  r.err # "ok" =>
                    /\ f >= 1
                    /\ \A j \in 1..(f - 1) :
                           /\ hasCache(r.s.cache, resources[order[j]])
                           /\ order[j] \in DOMAIN r.s.cacheCount
                           /\ r.s.cacheCount[order[j]]
                                  = Count(State, order[j]) + 1

\* cacheGroup(G1) has cached a and then raised TypeError at the music
\* resource b.
C11_Witness ==
    /\ "G1" \in DOMAIN cacheGroups /\ cacheGroups["G1"] = {"a", "b"}
    /\ "b" \in DOMAIN resources /\ resources["b"] \in Musics
    /\ Cached("a") /\ Count(State, "a") = 1
    /\ "b" \notin DOMAIN cacheCount
    /\ result = "TypeError"

\* The manager after uncacheResource has been called on the first n members
\* of order, one call after the other.
RECURSIVE UncachedPrefix(_, _, _)
UncachedPrefix(s, order, n) ==
    IF n = 0 THEN s
    ELSE uncacheResource(UncachedPrefix(s, order, n - 1), order[n]).s

\* The position of the first member of order whose uncacheResource raises,
\* 0 when none does.
FirstUncacheFailure(s, order) ==
    LET bad == {i \in 1..Len(order) :
                   uncacheResource(UncachedPrefix(s, order, i - 1),
                                   order[i]).err # "ok"}
    IN  IF bad = {} THEN 0 ELSE CHOOSE i \in bad : \A j \in bad : i <= j

\* key has the same recorded count, and its resource the same cache, in s1
\* and in s2.
SameEntry(s1, s2, key) ==
    /\ (key \in DOMAIN s1.cacheCount) = (key \in DOMAIN s2.cacheCount)
    /\ Count(s1, key) = Count(s2, key)
    /\ key \in DOMAIN s1.resources =>
           s1.cache[s1.resources[key]] = s2.cache[s2.resources[key]]

\* C12: cacheGroup(g) and uncacheGroup(g) stop at the first member whose
\* cacheResource / uncacheResource raises and propagate exactly that
\* exception; the members visited before it keep their changed count and
\* cache, the members not yet visited are unchanged.
C12_GroupStopsAtFirstFailure ==
    \A g \in DOMAIN cacheGroups : \A order \in Orders(Members(g)) :
        /\ \A force \in BOOLEAN : \A outs \in GroupOutcomes(g) :
               LET f == FirstCacheFailure(State, order, force, outs) IN
               f >= 1 =>
                   LET before == CachedPrefix(State, order, f - 1, force, outs)
                       r == cacheGroup(State, g, force, order, outs)
                   IN  /\ r.err = cacheResource(before, order[f], force,
                                                outs[order[f]]).err
                       /\ \A j \in 1..(f - 1) :
                              /\ SameEntry(r.s, before, order[j])
                              /\ order[j] \in DOMAIN r.s.cacheCount
                              /\ r.s.cacheCount[order[j]]
                                     = Count(State, order[j]) + 1
                       /\ \A j \in (f + 1)..Len(order) :
                              SameEntry(r.s, State, order[j])
        /\ LET f == FirstUncacheFailure(State, order) IN
           f >= 1 =>
               LET before == UncachedPrefix(State, order, f - 1)
                   r == uncacheGroup(State, g, order)
               IN  /\ r.err = uncacheResource(before, order[f]).err
                   /\ \A j \in 1..(f - 1) :
                          /\ SameEntry(r.s, before, order[j])
                          /\ order[j] \in DOMAIN r.s.cacheCount
                          /\ r.s.cacheCount[order[j]]
                                 = IF order[j] \in DOMAIN cacheCount
                                   THEN cacheCount[order[j]] - 1 ELSE 0
                   /\ \A j \in (f + 1)..Len(order) :
                          SameEntry(r.s, State, order[j])

\* uncacheGroup(G1) has raised KeyError at the unregistered member a and
\* has left the cached member b alone.
C12_Witness ==
    /\ "G1" \in DOMAIN cacheGroups /\ cacheGroups["G1"] = {"a", "b"}
    /\ "a" \notin DOMAIN resources
    /\ "a" \in DOMAIN cacheCount /\ cacheCount["a"] = 0
    /\ Cached("b") /\ Count(State, "b") = 1
    /\ result = "KeyError"

\* C13: getResource, removeResource, cacheResource, uncacheResource and
\* loadResource called with an unregistered key each raise KeyError;
\* getCacheGroup, removeCacheGroup, cacheGroup and uncacheGroup called with
\* a nonexistent group key each raise KeyError.
C13_UnknownKeyNotFound ==
    /\ \A k \in Keys \ DOMAIN resources :
           /\ getResource(State, k).err = "KeyError"
           /\ removeResource(State, k).err = "KeyError"
           /\ \A force \in BOOLEAN : \A out \in Outcomes(k) :
                  cacheResource(State, k, force, out).err = "KeyError"
           /\ uncacheResource(State, k).err = "KeyError"
           /\ \A out \in Outcomes(k) :
                  loadResource(State, k, out).err = "KeyError"
    /\ \A g \in GroupKeys \ DOMAIN cacheGroups :
           /\ getCacheGroup(State, g).err = "KeyError"
           /\ removeCacheGroup(State, g).err = "KeyError"
           /\ \A force \in BOOLEAN : \A order \in Orders(Members(g)) :
                  \A outs \in GroupOutcomes(g) :
                      cacheGroup(State, g, force, order, outs).err = "KeyError"
           /\ \A order \in Orders(Members(g)) :
                  uncacheGroup(State, g, order).err = "KeyError"

\* The manager state after the step.
StateNext == [resources |-> resources', cacheGroups |-> cacheGroups',
              cacheCount |-> cacheCount', cache |-> cache']

\* C14: a cache group is immutable: once addCacheGroup(g, members) has
\* succeeded, getCacheGroup(g) returns that member set after any other
\* operation, until removeCacheGroup(g) or cleanup(); removing a member
\* resource, caching and uncaching do not change it.
C14_CacheGroupImmutable ==
    [][\A g \in DOMAIN cacheGroups :
           \/ /\ getCacheGroup(StateNext, g).err = "ok"
              /\ cacheGroups'[g] = cacheGroups[g]
           \/ /\ g \notin DOMAIN cacheGroups'
              /\ \/ removeCacheGroup(State, g) = Ok(StateNext)
                 \/ \E order \in Orders(DOMAIN cacheCount) :
                        cleanup(State, order) = Ok(StateNext)]_vars

\* The group G1 still lists a after a, cached twice, has been removed from
\* the manager.
C14_Witness ==
    /\ "G1" \in DOMAIN cacheGroups /\ cacheGroups["G1"] = {"a", "b"}
    /\ "a" \notin DOMAIN resources
    /\ Count(State, "a") = 2
    /\ "b" \in DOMAIN resources

\* C15: after removeResource(k) succeeds, getResource(k) raises KeyError
\* until k is added again, and every other registered key still resolves
\* to its resource.
C15_RemovedKeyNotFound ==
    /\ [](\A k \in DOMAIN resources :
              LET r == removeResource(State, k) IN
              /\ r.err = "ok"
              /\ getResource(r.s, k).err = "KeyError"
              /\ \A k2 \in DOMAIN resources \ {k} :
                     /\ getResource(r.s, k2).err = "ok"
                     /\ r.s.resources[k2] = resources[k2])
    /\ [][\A k \in Keys :
              (/\ getResource(State, k).err = "KeyError"
               /\ getResource(StateNext, k).err = "ok")
                  => \E o \in Objs : addResource(State, k, o) = Ok(StateNext)]_vars

\* a has been removed while its resource held a cache, b is still
\* registered, and a call has raised KeyError.
C15_Witness ==
    /\ "a" \notin DOMAIN resources /\ hasCache(cache, "img1")
    /\ "b" \in DOMAIN resources /\ resources["b"] = "snd1"
    /\ getResource(State, "a").err = "KeyError"
    /\ result = "KeyError"

\* C16: removeResource(k) changes only the resources map: the membership of
\* every cache group, every cacheCount entry (cacheCount[k] included) and
\* the removed resource's own cache are unchanged.
C16_RemoveOnlyUnregisters ==
    \A k \in DOMAIN resources :
        LET r == removeResource(State, k) IN
        /\ r.s.resources = DelItem(resources, k)
        /\ r.s.cacheGroups = cacheGroups
        /\ r.s.cacheCount = cacheCount
        /\ r.s.cache[resources[k]] = cache[resources[k]]
        /\ r.s.cache = cache

\* b has been removed while it was a member of G1 and held a cache with one
\* reference; the group, the count and the cache are still there.
C16_Witness ==
    /\ "b" \notin DOMAIN resources
    /\ "G1" \in DOMAIN cacheGroups /\ "b" \in cacheGroups["G1"]
    /\ "b" \in DOMAIN cacheCount /\ cacheCount["b"] = 1
    /\ hasCache(cache, "snd1")
    /\ result = "ok"

\* C17: for a group g whose members are all registered non-music resources
\* with no outstanding references and whose load succeeds, cacheGroup(g)
\* leaves every member with a cache, and the following uncacheGroup(g)
\* leaves every member without a cache and with cacheCount 0.
C17_GroupCacheThenUncache ==
    \A g \in DOMAIN cacheGroups :
        (\A m \in Members(g) : Cacheable(m) /\ Count(State, m) = 0) =>
            \A force \in BOOLEAN : \A order, order2 \in Orders(Members(g)) :
                \A outs \in GroupOutcomes(g) :
                    (\A m \in Members(g) : outs[m] # LoadError) =>
                        LET r1 == cacheGroup(State, g, force, order, outs)
                            r2 == uncacheGroup(r1.s, g, order2)
                        IN  /\ r1.err = "ok"
                            /\ \A m \in Members(g) :
                                   hasCache(r1.s.cache, resources[m])
                            /\ r2.err = "ok"
                            /\ \A m \in Members(g) :
                                   /\ ~hasCache(r2.s.cache, resources[m])
                                   /\ m \in DOMAIN r2.s.cacheCount
                                   /\ r2.s.cacheCount[m] = 0

\* Both members of G1 = {a, b} are registered, hold no cache and have the
\* count 0 recorded, after calls that all returned normally.
C17_Witness ==
    /\ "G1" \in DOMAIN cacheGroups /\ cacheGroups["G1"] = {"a", "b"}
    /\ Cacheable("a") /\ Cacheable("b")
    /\ "a" \in DOMAIN cacheCount /\ cacheCount["a"] = 0
    /\ "b" \in DOMAIN cacheCount /\ cacheCount["b"] = 0
    /\ ~Cached("a") /\ ~Cached("b")
    /\ strict /\ result = "ok"

\* C18: in the branches/resman variant, cacheResource(key) of a registered
\* non-music resource whose load succeeds returns normally with the cache
\* created and the count recorded under that key, uncacheResource(key)
\* then destroys the cache, and cacheGroup(g) / uncacheGroup(g) cache and
\* uncache each member of g, not the resource named by the group key.
C18_BranchCachesByKey ==
    /\ \A k \in DOMAIN resources : \A force \in BOOLEAN :
           \A out \in Outcomes(k) \ {LoadError} :
               (Cacheable(k) /\ Count(State, k) = 0) =>
                   LET r == branch_cacheResource(State, k, force, out)
                       u == branch_uncacheResource(r.s, k)
                   IN  /\ r.err = "ok"
                       /\ hasCache(r.s.cache, resources[k])
                       /\ k \in DOMAIN r.s.cacheCount
                       /\ r.s.cacheCount[k] = 1
                       /\ u.err = "ok"
                       /\ ~hasCache(u.s.cache, resources[k])
    /\ \A g \in DOMAIN cacheGroups : \A force \in BOOLEAN :
           \A order, order2 \in Orders(Members(g)) :
               \A out \in Outcomes(g) \ {LoadError} :
                   (\A m \in Members(g) : Cacheable(m) /\ Count(State, m) = 0) =>
                       LET r == branch_cacheGroup(State, g, force, order, out)
                           u == branch_uncacheGroup(r.s, g, order2)
                       IN  /\ r.err = "ok"
                           /\ \A m \in Members(g) :
                                  hasCache(r.s.cache, resources[m])
                           /\ u.err = "ok"
                           /\ \A m \in Members(g) :
                                  ~hasCache(u.s.cache, resources[m])

\* C19: no Submanager operation (prepare, cache, uncache, load) adds or
\* removes a resource key or a cache group of the manager.
C19_SubmanagerNeverRegisters ==
    \A t \in SubTypes :
        /\ \A reg \in Registrations :
               NewObject(reg[2], t) =>
                   LET r == subPrepare(State, t, reg[1], reg[2]) IN
                   /\ DOMAIN r.s.resources = DOMAIN resources
                   /\ r.s.cacheGroups = cacheGroups
        /\ \A k \in Keys :
               /\ \A force \in BOOLEAN : \A out \in Outcomes(k) :
                      LET r == subCache(State, t, k, force, out) IN
                      /\ DOMAIN r.s.resources = DOMAIN resources
                      /\ r.s.cacheGroups = cacheGroups
               /\ LET r == subUncache(State, t, k) IN
                  /\ DOMAIN r.s.resources = DOMAIN resources
                  /\ r.s.cacheGroups = cacheGroups
               /\ \A out \in Outcomes(k) :
                      LET r == subLoad(State, t, k, out) IN
                      /\ DOMAIN r.s.resources = DOMAIN resources
                      /\ r.s.cacheGroups = cacheGroups

\* C20: destroyCache on a non-music resource that has no cache returns
\* normally and leaves it without a cache; calling destroyCache twice gives
\* the same state as calling it once; uncacheResource(k) on a registered
\* non-music resource that has no cache returns normally.
C20_DestroyCacheIdempotent ==
    /\ \A o \in Objs \ Musics :
           LET r == destroyCache(cache, o) IN
           /\ r.err = "ok"
           /\ ~hasCache(r.cache, o)
           /\ ~hasCache(cache, o) => r.cache = cache
           /\ destroyCache(r.cache, o) = r
    /\ \A k \in DOMAIN resources :
           (Cacheable(k) /\ ~Cached(k)) =>
               LET r == uncacheResource(State, k) IN
               /\ r.err = "ok"
               /\ r.s.cache = cache

\* uncacheResource has returned normally on the registered image a, which
\* holds no cache, and on the sound b.
C20_Witness ==
    /\ "a" \in DOMAIN resources /\ resources["a"] = "img1"
    /\ cache["img1"] = None
    /\ "a" \in DOMAIN cacheCount /\ cacheCount["a"] = 0
    /\ "b" \in DOMAIN resources /\ resources["b"] = "snd1"
    /\ "b" \in DOMAIN cacheCount /\ cacheCount["b"] = -1
    /\ strict /\ result = "ok"

\* The count uncacheResource records for key: one less than the recorded
\* count, and 0 when none is recorded.
Lowered(s, key) ==
    IF key \in DOMAIN s.cacheCount THEN s.cacheCount[key] - 1 ELSE 0

\* The counts of the keys outside `keys` are the same in s1 and s2.
SameCountsExcept(s1, s2, keys) ==
    /\ DOMAIN s1.cacheCount \ keys = DOMAIN s2.cacheCount \ keys
    /\ \A k \in DOMAIN s1.cacheCount \ keys :
           s1.cacheCount[k] = s2.cacheCount[k]

\* C23 as stated: every successful cacheResource(k) raises cacheCount[k] by
\* exactly 1 and every uncacheResource(k) call lowers cacheCount[k] by
\* exactly 1, an absent count being treated as 0, whether the call is direct
\* or made through cacheGroup / uncacheGroup.
C23_CountByOne ==
    \A k \in Keys :
        /\ \A force \in BOOLEAN : \A out \in Outcomes(k) :
               LET r == cacheResource(State, k, force, out) IN
               r.err = "ok" => Count(r.s, k) = Count(State, k) + 1
        /\ Count(uncacheResource(State, k).s, k) = Count(State, k) - 1

\* C23 amended: a successful cacheResource(k) raises cacheCount[k] by
\* exactly 1, an absent count being treated as 0; every uncacheResource(k)
\* call, failing or not, lowers a recorded cacheCount[k] by exactly 1 and
\* records 0 when no count is recorded; a cacheGroup / uncacheGroup that
\* returns normally does the same to each member; no other count changes.
C23_CountArithmetic ==
    /\ \A k \in Keys :
           /\ \A force \in BOOLEAN : \A out \in Outcomes(k) :
                  LET r == cacheResource(State, k, force, out) IN
                  /\ r.err = "ok" =>
                         /\ k \in DOMAIN r.s.cacheCount
                         /\ r.s.cacheCount[k] = Count(State, k) + 1
                  /\ SameCountsExcept(r.s, State, {k})
           /\ LET r == uncacheResource(State, k) IN
              /\ k \in DOMAIN r.s.cacheCount
              /\ r.s.cacheCount[k] = Lowered(State, k)
              /\ SameCountsExcept(r.s, State, {k})
    /\ \A g \in DOMAIN cacheGroups : \A order \in Orders(Members(g)) :
           /\ \A force \in BOOLEAN : \A outs \in GroupOutcomes(g) :
                  LET r == cacheGroup(State, g, force, order, outs) IN
                  /\ r.err = "ok" =>
                         \A m \in Members(g) :
                             /\ m \in DOMAIN r.s.cacheCount
                             /\ r.s.cacheCount[m] = Count(State, m) + 1
                  /\ SameCountsExcept(r.s, State, Members(g))
           /\ LET r == uncacheGroup(State, g, order) IN
              /\ r.err = "ok" =>
                     \A m \in Members(g) :
                         /\ m \in DOMAIN r.s.cacheCount
                         /\ r.s.cacheCount[m] = Lowered(State, m)
              /\ SameCountsExcept(r.s, State, Members(g))

\* a has been cached twice, and an uncacheResource on b, which had no
\* recorded count, has recorded 0.
C23_Witness ==
    /\ Cached("a") /\ Count(State, "a") = 2
    /\ Cacheable("b") /\ ~Cached("b")
    /\ "b" \in DOMAIN cacheCount /\ cacheCount["b"] = 0
    /\ dc.key = "a" /\ dc.c = 2 /\ dc.u = 0
    /\ strict /\ result = "ok"

\* C24: loadResource(k) (Resource.get) returns the cached value when the
\* resource has a cache and otherwise the result of a fresh load(); in both
\* cases it leaves the resource's cache, every cacheCount entry and the
\* registry maps unchanged.
C24_LoadResourceReadOnly ==
    \A k \in DOMAIN resources : \A out \in Outcomes(k) :
        LET r == loadResource(State, k, out)
            g == get(cache, resources[k], out)
        IN  /\ r.s = State
            /\ r.err = g.err
            /\ Cached(k) => g = [ret |-> cache[resources[k]], err |-> "ok"]
            /\ (~Cached(k) /\ out # LoadError) => g = [ret |-> out, err |-> "ok"]
            /\ (~Cached(k) /\ out = LoadError) => g.err = LoadError

\* a is registered and has never been counted or cached, b holds a cache,
\* and the last call returned normally.
C24_Witness ==
    /\ "a" \in DOMAIN resources /\ resources["a"] = "img1"
    /\ ~Cached("a") /\ "a" \notin DOMAIN cacheCount
    /\ Cached("b") /\ Count(State, "b") = 1
    /\ loadResource(State, "a", "v2") = Ok(State)
    /\ result = "ok"

\* C25: cacheResource(k, force=False) on a resource that already has a
\* cache does not call load() and keeps the cached value, while
\* cacheResource(k, force=True) calls load() again and replaces the cached
\* value; in both cases cacheCount[k] is incremented by 1.
C25_ForceReloads ==
    \A k \in DOMAIN resources :
        Cached(k) =>
            /\ \A out \in Outcomes(k) :
                   LET r == cacheResource(State, k, FALSE, out) IN
                   /\ r.err = "ok"
                   /\ r.s.cache = cache
                   /\ Count(r.s, k) = Count(State, k) + 1
            /\ \A out \in Outcomes(k) \ {LoadError} :
                   LET r == cacheResource(State, k, TRUE, out) IN
                   /\ r.err = "ok"
                   /\ r.s.cache = [cache EXCEPT ![resources[k]] = out]
                   /\ Count(r.s, k) = Count(State, k) + 1

\* The image a has been cached twice in a row and holds the second value
\* its load can produce.
C25_Witness ==
    /\ "a" \in DOMAIN resources /\ resources["a"] = "img1"
    /\ cache["img1"] = "v2"
    /\ dc.key = "a" /\ dc.c = 2 /\ dc.u = 0
    /\ Count(State, "a") = 2
    /\ cacheResource(State, "a", TRUE, "v1").s.cache["img1"] = "v1"
    /\ result = "ok"

\* C26: if load() fails during cacheResource(k, force), the error is
\* propagated, the resource's cache is exactly what it was before the call
\* (absent if absent, the old value when force-refreshing) and cacheCount[k]
\* is not incremented; nothing else is recorded.
C26_FailedLoadChangesNothing ==
    \A k \in DOMAIN resources : \A force \in BOOLEAN :
        (Cacheable(k) /\ (force \/ ~Cached(k))) =>
            cacheResource(State, k, force, LoadError) = Raise(State, LoadError)

\* A load has failed while the image a was cached with one reference and
\* the sound b was registered without cache or count.
C26_Witness ==
    /\ Cached("a") /\ Count(State, "a") = 1
    /\ "b" \in DOMAIN resources /\ resources["b"] = "snd1"
    /\ ~Cached("b") /\ "b" \notin DOMAIN cacheCount
    /\ result = LoadError

\* C27: in both the tags/0.2.0 and the branches/vfs variants,
\* Submanager.cache(key, force) resolves and type-checks the resource before
\* touching any state, then has exactly the effect of
\* manager.cacheResource(key, force) and returns the value now stored in the
\* resource's cache; Submanager.uncache(key) has exactly the effect of
\* manager.uncacheResource(key).
C27_SubmanagerDelegates ==
    \A t \in SubTypes : \A k \in Keys :
        IF k \in DOMAIN resources /\ isinstance(resources[k], t)
        THEN /\ \A force \in BOOLEAN : \A out \in Outcomes(k) :
                    LET r == cacheResource(State, k, force, out) IN
                    /\ subCache(State, t, k, force, out) = r
                    /\ tag_subCache(State, t, k, force, out) = r
                    /\ r.err = "ok" =>
                           get(r.s.cache, resources[k], out)
                               = [ret |-> r.s.cache[resources[k]], err |-> "ok"]
             /\ subUncache(State, t, k) = uncacheResource(State, k)
        ELSE /\ \A force \in BOOLEAN : \A out \in Outcomes(k) :
                    /\ subCache(State, t, k, force, out) = Raise(State, "KeyError")
                    /\ tag_subCache(State, t, k, force, out)
                           = Raise(State, "KeyError")
             /\ subUncache(State, t, k) = Raise(State, "KeyError")

\* C29: in every reachable state, every key that has a recorded cacheCount
\* is a registered resource key.
C29_CountedKeysRegistered == DOMAIN cacheCount \subseteq DOMAIN resources

\* C30: an uncacheResource(k) call that raises (k not registered, or k
\* registered to a music resource) leaves cacheCount and every resource's
\* cache exactly as they were before the call.
C30_FailedUncacheChangesNothing ==
    \A k \in Keys :
        LET r == uncacheResource(State, k) IN
        r.err # "ok" =>
            /\ r.s.cacheCount = cacheCount
            /\ r.s.cache = cache

\* The smaller of two numbers.
Min(x, y) == IF x <= y THEN x ELSE y

\* The step is an update(time) of the Timer.
UpdateStep(time) ==
    /\ th.made
    /\ update(timer, time) = [t |-> timer', fireCount |-> th'.ret]
    /\ th' = [th EXCEPT !.elapsed = @ + time, !.fired = @ + th'.ret,
                        !.ret = th'.ret]

\* C21: a Timer with duration d > 0 and loop = n >= 0, on which only update
\* is called, never fires before the cumulative time given to update
\* reaches d, fires exactly n + 1 times in total (one firing for every full
\* period of d elapsed, up to n + 1), each update returns the number of
\* firings it performed, and every update after the last firing returns 0.
C21_TimerFires ==
    /\ []((th.made /\ th.plain /\ timer.duration > 0) =>
              /\ th.fired > 0 => th.elapsed >= timer.duration
              /\ th.fired <= th.n0 + 1
              /\ th.fired = Min(th.n0 + 1, th.elapsed \div timer.duration)
              /\ th.fired = th.n0 + 1 <=> (timer.loop = 0 /\ timer.value = 0))
    /\ [][\A time \in Times :
              (th.plain /\ timer.duration > 0 /\ UpdateStep(time)) =>
                  /\ th'.ret = th'.fired - th.fired
                  /\ th'.ret = Min(th.n0 + 1, th'.elapsed \div timer.duration)
                                - Min(th.n0 + 1, th.elapsed \div timer.duration)
                  /\ th.fired = th.n0 + 1 => th'.ret = 0]_vars

\* A Timer of duration 2 and loop 2 has fired three times, two of them in
\* one update, and a later update has returned 0.
C21_Witness ==
    /\ th.made /\ th.plain
    /\ timer.duration = 2 /\ th.n0 = 2
    /\ th.fired = 3 /\ th.ret = 0
    /\ th.elapsed > 6
    /\ update(timer, 4).fireCount = 0

\* C22: a Timer's duration must be greater than 0: constructing a Timer,
\* or calling reset(duration), with a duration that is not greater than 0
\* raises ValueError.
C22_DurationPositive ==
    \A d \in Durations :
        d <= 0 =>
            /\ \A n \in Loops : init(d, n).err = "ValueError"
            /\ th.made => reset(timer, <<d>>).err = "ValueError"

\* C28: Game.changeToState(s) does not change the current state at once;
\* the next iterate() makes s the current state and calls s.firstDisplay
\* exactly once before s receives any event, update or display call, and
\* firstDisplay is not called again on later iterations while the state
\* stays the same.
C28_StateChangeOnNextIterate ==
    /\ \A s \in StateObjs :
           LET g == changeToState(game, s)
               r == iterateSwitch(g)
           IN  /\ g.state = game.state
               /\ r.g.state = s
               /\ r.firstDisplay = (s # game.state)
               /\ r.err = "ok"
    /\ it.shown <= 1
    /\ it.received => it.shown = 1
    /\ (game.state # None /\ it.pc # "idle") => it.shown = 1

\* The state B is being displayed after one firstDisplay call, while a
\* change to A has been asked for and has not happened yet.
C28_Witness ==
    /\ game.state = "B" /\ game.nextState = "A"
    /\ it.pc = "display" /\ it.received /\ it.shown = 1

\* C31: a key registered again after its removal starts fresh: after
\* removeResource(k) and a later addResource(k, r2), one cacheResource(k)
\* followed by one uncacheResource(k) leaves r2 without a cache, whatever
\* reference count the removed resource had.
C31_ReRegisteredKeyFresh ==
    \A k \in DOMAIN resources : \A reg \in Registrations :
        \A force \in BOOLEAN : \A out \in LoadOutcomes(reg[2]) :
            LET removed == removeResource(State, k)
                added == addResource(removed.s, k, reg[2])
                cached == cacheResource(added.s, k, force, out)
                uncached == uncacheResource(cached.s, k)
            IN  (reg[1] = k /\ cached.err = "ok") =>
                    /\ removed.err = "ok" /\ added.err = "ok"
                    /\ uncached.err = "ok"
                    /\ ~hasCache(uncached.s.cache, reg[2])

\* C32: addCacheGroup(g, members) does not validate the members: it
\* succeeds even when a member key is not registered, and the error
\* surfaces later, as KeyError from cacheGroup(g) or uncacheGroup(g) when
\* that member is visited.
C32_GroupMembersUnchecked ==
    /\ \A g \in GroupKeys \ DOMAIN cacheGroups : \A members \in SUBSET Keys :
           addCacheGroup(State, g, members)
               = Ok([State EXCEPT !.cacheGroups = SetItem(@, g, members)])
    /\ \A g \in DOMAIN cacheGroups : \A order \in Orders(Members(g)) :
           (Len(order) > 0 /\ order[1] \notin DOMAIN resources) =>
               /\ \A force \in BOOLEAN : \A outs \in GroupOutcomes(g) :
                      cacheGroup(State, g, force, order, outs).err = "KeyError"
               /\ uncacheGroup(State, g, order).err = "KeyError"

\* C33: when no member of group g fails, the manager state after
\* cacheGroup(g) (respectively uncacheGroup(g)) is the same for every order
\* in which the members are visited, and equals the state after calling
\* cacheResource (respectively uncacheResource) exactly once on each member.
C33_GroupOrderIndependent ==
    \A g \in DOMAIN cacheGroups : \A order1, order2 \in Orders(Members(g)) :
        /\ \A force \in BOOLEAN : \A outs \in GroupOutcomes(g) :
               FirstCacheFailure(State, order1, force, outs) = 0 =>
                   LET r1 == cacheGroup(State, g, force, order1, outs)
                       r2 == cacheGroup(State, g, force, order2, outs)
                   IN  /\ r1.err = "ok"
                       /\ r2 = r1
                       /\ r1.s = CachedPrefix(State, order1, Len(order1),
                                              force, outs)
        /\ FirstUncacheFailure(State, order1) = 0 =>
               LET r1 == uncacheGroup(State, g, order1)
                   r2 == uncacheGroup(State, g, order2)
               IN  /\ r1.err = "ok"
                   /\ r2 = r1
                   /\ r1.s = UncachedPrefix(State, order1, Len(order1))

\* Both members of G1 = {a, b} are cached with one reference each after
\* calls that all returned normally, and a further cacheGroup(G1) and
\* uncacheGroup(G1) would not fail.
C33_Witness ==
    /\ "G1" \in DOMAIN cacheGroups /\ cacheGroups["G1"] = {"a", "b"}
    /\ Cached("a") /\ Count(State, "a") = 1
    /\ Cached("b") /\ Count(State, "b") = 1
    /\ \A order \in Orders({"a", "b"}) :
           /\ FirstUncacheFailure(State, order) = 0
           /\ FirstCacheFailure(State, order, TRUE, [m \in {"a", "b"} |-> "v1"]) = 0
    /\ strict /\ result = "ok"

\* C34: each SoundManager.play(tag) with cache=True and shouldPlay=True
\* raises the reference count of tag by exactly 1 and nothing in play lowers
\* it, so after n plays the sound stays cached until uncache has been called
\* n times; with shouldPlay=False or cache=False play leaves the count
\* unchanged.
C34_PlayHoldsReference ==
    \A k \in DOMAIN resources : \A out \in Outcomes(k) \ {LoadError} :
        resources[k] \in Sounds =>
            LET p1 == soundPlay(State, TRUE, k, TRUE, out)
                p2 == soundPlay(p1.s, TRUE, k, TRUE, out)
                u1 == subUncache(p2.s, "SoundResource", k)
            IN  /\ p1.err = "ok" /\ Count(p1.s, k) = Count(State, k) + 1
                /\ hasCache(p1.s.cache, resources[k])
                /\ p2.err = "ok" /\ Count(p2.s, k) = Count(State, k) + 2
                /\ u1.err = "ok" /\ hasCache(u1.s.cache, resources[k])
                /\ soundPlay(State, TRUE, k, FALSE, out) = Ok(State)
                /\ \A docache \in BOOLEAN :
                       soundPlay(State, FALSE, k, docache, out) = Ok(State)

\* C35: MusicManager is restricted to its own variant: load(key) with
\* shouldPlay=True fails with KeyError when key is registered to a resource
\* that is not a MusicResource.
C35_MusicManagerRestricted ==
    music.shouldPlay =>
        \A k \in DOMAIN resources : \A out \in Outcomes(k) :
            resources[k] \notin Musics =>
                musicLoad(music, State, k, out).err = "KeyError"

\* C36: after any sequence of startPlaylist, nextSong and previousSong
\* calls, whenever the current playlist is non-empty the index is within
\* it; nextSong past the last song wraps to index 0 and previousSong before
\* the first song wraps to the last index.
C36_IndexInPlaylist ==
    music.playlist # <<>> =>
        /\ 0 <= music.index /\ music.index < Len(music.playlist)
        /\ \A out \in SongOutcomes(music.playlist, NextIndex(music)) :
               nextSong(music, State, out).m.index =
                   IF music.index = Len(music.playlist) - 1 THEN 0
                   ELSE music.index + 1
        /\ \A out \in SongOutcomes(music.playlist, PrevIndex(music)) :
               previousSong(music, State, out).m.index =
                   IF music.index = 0 THEN Len(music.playlist) - 1
                   ELSE music.index - 1

\* nextSong has just wrapped from the last song of three to the first.
C36_Witness ==
    /\ mh.op = "nextSong" /\ Len(music.playlist) = 3
    /\ mh.index = 2 /\ music.index = 0

C38_UpdateTerminates == (up.pc = "while") ~> (up.pc = "idle")

====
